---- MODULE Spec2Model ----
(***************************************************************************)
(* AlphaGraph backend (backend/server.py): the analysis service with its   *)
(* response normaliser, the /analyze, /news/recent, /trends,               *)
(* /company/{symbol} and /demo/populate handlers and the deferred save.    *)
(*                                                                         *)
(* Text is a sequence of chunks.  A chunk is an indivisible piece of text: *)
(* the code-fence marker, the word json, a newline, a JSON punctuation     *)
(* mark, a double quote, a number literal, the literal null, or a word or  *)
(* letter.  Numbers are kept in hundredths (0.8 is 80, 5 is 500).          *)
(***************************************************************************)
EXTENDS Integers, Sequences, FiniteSets, TLC

VARIABLES
  apiKey,         \* GEMINI_API_KEY is set (line 33)
  tz,             \* the server's local time minus UTC, in hours
  now,            \* the moment, in hours UTC
  db,             \* the news_analysis collection, in insertion order
  tasks,          \* background saves added and not yet run
  nextId,         \* stands for uuid4: the next unused id
  providerCalled, \* chat.send_message was ever called
  provider,       \* what chat.send_message does while an input of the run
  svc,            \* the analyze_news calls made by the step just taken
  resp,           \* the response sent by the step just taken, if it handled a request
  req             \* the request the step just taken handled, with what the database did

vars == <<apiKey, tz, now, db, tasks, nextId, providerCalled, provider, svc, resp, req>>

(***************************************************************************)
(* Chunks                                                                  *)
(***************************************************************************)
\* the three-backtick code-fence marker
FENCE == "FENCE"
\* the word json
TAG == "json"
\* a whitespace character
NL == "NL"
\* a double quote
QUOTE == "QUOTE"

\* number literals and their values in hundredths
NumTable ==
  << <<"0.0", 0>>, <<"0.8", 80>>, <<"0.2", 20>>, <<"0.21", 21>>, <<"-0.2", -20>>,
     <<"-0.21", -21>>, <<"-0.6", -60>>, <<"2.5", 250>>, <<"5", 500>>,
     <<"8", 800>>, <<"11", 1100>> >>

NumTokens == {NumTable[i][1] : i \in 1..Len(NumTable)}

NumValue(tok) == NumTable[CHOOSE i \in 1..Len(NumTable) : NumTable[i][1] = tok][2]

NumToken(n) == NumTable[CHOOSE i \in 1..Len(NumTable) : NumTable[i][2] = n][1]

(***************************************************************************)
(* Python values as json.loads builds them                                 *)
(***************************************************************************)
Num(n) == [t |-> "num", v |-> n]
Str(s) == [t |-> "str", v |-> s]
List(l) == [t |-> "list", v |-> l]
Obj(f) == [t |-> "obj", v |-> f]
Null == [t |-> "null", v |-> <<>>]

IsStr(x, s) == x.t = "str" /\ x.v = s

\* a one-word string
W(w) == Str(<<w>>)

EmptyMap == [k \in {} |-> Null]

\* dict item assignment d[k] = x
SetItem(d, k, x) == [j \in (DOMAIN d) \cup {k} |-> IF j = k THEN x ELSE d[j]]

(***************************************************************************)
(* str.strip, str.startswith, str.split                                    *)
(***************************************************************************)
RECURSIVE LStrip(_)
LStrip(s) == IF s # <<>> /\ Head(s) = NL THEN LStrip(Tail(s)) ELSE s

RECURSIVE RStrip(_)
RStrip(s) ==
  IF s # <<>> /\ s[Len(s)] = NL THEN RStrip(SubSeq(s, 1, Len(s) - 1)) ELSE s

Strip(s) == RStrip(LStrip(s))

StartsWith(s, p) == Len(s) >= Len(p) /\ SubSeq(s, 1, Len(p)) = p

\* positions where sep occurs in s
Occurs(s, sep) ==
  {i \in 1..(Len(s) - Len(sep) + 1) : SubSeq(s, i, i + Len(sep) - 1) = sep}

Min(S) == CHOOSE x \in S : \A y \in S : x <= y

RECURSIVE Split(_, _)
Split(s, sep) ==
  IF Occurs(s, sep) = {}
  THEN <<s>>
  ELSE LET i == Min(Occurs(s, sep))
       IN <<SubSeq(s, 1, i - 1)>> \o Split(SubSeq(s, i + Len(sep), Len(s)), sep)

(***************************************************************************)
(* json.loads                                                              *)
(***************************************************************************)
Failed == [ok |-> FALSE, val |-> Null, rest |-> <<>>]
Parsed(x, r) == [ok |-> TRUE, val |-> x, rest |-> r]

\* a string literal: from an opening quote to the next quote; a raw newline
\* inside it is a control character, which the decoder rejects
ParseString(s) ==
  LET close == {j \in 2..Len(s) : s[j] = QUOTE}
  IN IF close = {}
     THEN Failed
     ELSE LET j == Min(close)
              body == SubSeq(s, 2, j - 1)
          IN IF \E i \in 1..Len(body) : body[i] = NL
             THEN Failed
             ELSE Parsed(Str(body), SubSeq(s, j + 1, Len(s)))

RECURSIVE ParseValue(_), ParseElements(_, _, _), ElementEnd(_, _), ParseMembers(_, _, _),
          MemberColon(_, _), MemberValue(_, _, _), MemberEnd(_, _)

\* one JSON value at the front of s
ValueAt(s) ==
  IF s = <<>> THEN Failed
  ELSE IF Head(s) = "{" THEN ParseMembers(LStrip(Tail(s)), EmptyMap, TRUE)
  ELSE IF Head(s) = "[" THEN ParseElements(LStrip(Tail(s)), <<>>, TRUE)
  ELSE IF Head(s) = QUOTE THEN ParseString(s)
  ELSE IF Head(s) \in NumTokens THEN Parsed(Num(NumValue(Head(s))), Tail(s))
  ELSE IF Head(s) = "null" THEN Parsed(Null, Tail(s))
  ELSE Failed

ParseValue(s) == ValueAt(LStrip(s))

\* the elements of an array, after its opening bracket or a comma
ParseElements(s, acc, first) ==
  IF s = <<>> THEN Failed
  ELSE IF first /\ Head(s) = "]" THEN Parsed(List(acc), Tail(s))
  ELSE ElementEnd(ParseValue(s), acc)

\* r is the element just read: a comma or the closing bracket follows
ElementEnd(r, acc) ==
  IF ~r.ok \/ LStrip(r.rest) = <<>> THEN Failed
  ELSE IF Head(LStrip(r.rest)) = ","
  THEN ParseElements(LStrip(Tail(LStrip(r.rest))), Append(acc, r.val), FALSE)
  ELSE IF Head(LStrip(r.rest)) = "]"
  THEN Parsed(List(Append(acc, r.val)), Tail(LStrip(r.rest)))
  ELSE Failed

\* the members of an object, after its opening brace or a comma
ParseMembers(s, acc, first) ==
  IF s = <<>> THEN Failed
  ELSE IF first /\ Head(s) = "}" THEN Parsed(Obj(acc), Tail(s))
  ELSE IF Head(s) # QUOTE THEN Failed
  ELSE MemberColon(ParseString(s), acc)

\* k is the key just read: a colon and the value follow
MemberColon(k, acc) ==
  IF ~k.ok \/ LStrip(k.rest) = <<>> \/ Head(LStrip(k.rest)) # ":" THEN Failed
  ELSE MemberValue(ParseValue(Tail(LStrip(k.rest))), k.val.v, acc)

\* r is the value just read for key: a later member of the same name wins
MemberValue(r, key, acc) ==
  IF ~r.ok THEN Failed ELSE MemberEnd(LStrip(r.rest), SetItem(acc, key, r.val))

\* a comma or the closing brace follows a member
MemberEnd(s, acc) ==
  IF s = <<>> THEN Failed
  ELSE IF Head(s) = "," THEN ParseMembers(LStrip(Tail(s)), acc, FALSE)
  ELSE IF Head(s) = "}" THEN Parsed(Obj(acc), Tail(s))
  ELSE Failed

\* r is the value read from the whole text: only whitespace may follow it
WholeText(r) == IF r.ok /\ LStrip(r.rest) = <<>> THEN r ELSE Failed

\* json.loads(text)
JsonLoads(text) == WholeText(ParseValue(text))

(***************************************************************************)
(* FinancialAnalysisService                                                *)
(***************************************************************************)
\* a dict from a sequence of <<key, value>> pairs; a later pair wins
RECURSIVE Dict(_)
Dict(pairs) ==
  IF pairs = <<>>
  THEN EmptyMap
  ELSE LET n == Len(pairs)
       IN SetItem(Dict(SubSeq(pairs, 1, n - 1)), pairs[n][1], pairs[n][2])

\* a dict key that is one word
K(w) == <<w>>

required_fields ==
  <<"sentiment_score", "sentiment_label", "impact_score", "mentioned_companies",
    "key_points">>

\* variant for the sensitivity of C5: the defaults of the NewsAnalysis model
\* (impact 0.0) in place of the Normalizer's
DefaultValueOfModel(field) ==
  CASE field = "sentiment_score" -> Num(0)
    [] field = "sentiment_label" -> W("NEUTRAL")
    [] field = "impact_score" -> Num(0)
    [] field = "mentioned_companies" -> List(<<>>)
    [] field = "key_points" -> List(<<>>)
    [] OTHER -> Null

_get_default_value(field) ==
  CASE field = "sentiment_score" -> Num(0)
    [] field = "sentiment_label" -> W("NEUTRAL")
    [] field = "impact_score" -> Num(500)
    [] field = "mentioned_companies" -> List(<<>>)
    [] field = "key_points" -> List(<<>>)
    [] OTHER -> Null

\* variant for the sensitivity of C2: a fallback assembled from the per-field
\* defaults, with no key point and no reasoning
DefaultAnalysisOfDefaults ==
  Obj(Dict(<< <<K("sentiment_score"), Num(0)>>,
              <<K("sentiment_label"), W("NEUTRAL")>>,
              <<K("impact_score"), Num(500)>>,
              <<K("mentioned_companies"), List(<<>>)>>,
              <<K("key_points"), List(<<>>)>> >>))

_get_default_analysis ==
  Obj(Dict(<< <<K("sentiment_score"), Num(0)>>,
              <<K("sentiment_label"), W("NEUTRAL")>>,
              <<K("impact_score"), Num(500)>>,
              <<K("mentioned_companies"), List(<<>>)>>,
              <<K("key_points"), List(<<W("Analysis temporarily unavailable")>>)>>,
              <<K("reasoning"), W("AI analysis service temporarily unavailable")>> >>))

\* lines 165-169: the text json.loads is given
CleanResponse(response) ==
  LET response_text == Strip(response)
  IN IF StartsWith(response_text, <<FENCE, TAG>>)
     THEN Split(Split(response_text, <<FENCE, TAG>>)[2], <<FENCE>>)[1]
     ELSE IF StartsWith(response_text, <<FENCE>>)
     THEN Split(Split(response_text, <<FENCE>>)[2], <<FENCE>>)[1]
     ELSE response_text

\* field in x, for the Python value x; "error" is the TypeError of a value
\* that is no container
Contains(x, field) ==
  CASE x.t = "obj" -> IF K(field) \in DOMAIN x.v THEN "yes" ELSE "no"
    [] x.t = "list" -> IF \E i \in 1..Len(x.v) : IsStr(x.v[i], <<field>>) THEN "yes" ELSE "no"
    [] x.t = "str" -> IF \E i \in 1..Len(x.v) : x.v[i] = field THEN "yes" ELSE "no"
    [] OTHER -> "error"

\* lines 174-177: the loop over required_fields from position i on; a missing
\* field is assigned its default, which only a dict supports
RECURSIVE FillRequired(_, _)
FillRequired(x, i) ==
  IF i > Len(required_fields)
  THEN [raised |-> FALSE, val |-> x]
  ELSE LET field == required_fields[i]
           c == Contains(x, field)
       IN IF c = "yes" THEN FillRequired(x, i + 1)
          ELSE IF c = "no" /\ x.t = "obj"
          THEN FillRequired(Obj(SetItem(x.v, K(field), _get_default_value(field))), i + 1)
          ELSE [raised |-> TRUE, val |-> Null]

\* lines 179 and 187-189: the filled result, or the default analysis when
\* filling raised
Filled(filled) == IF filled.raised THEN _get_default_analysis ELSE filled.val

\* lines 171-185: the parsed value goes through the required-field loop; a
\* decode error gives the default analysis
Loaded(parsed) ==
  IF ~parsed.ok THEN _get_default_analysis ELSE Filled(FillRequired(parsed.val, 1))

\* lines 160-189: what analyze_news returns for the provider's outcome, with a
\* credential configured
Normalize(outcome) ==
  IF outcome.kind = "raise"
  THEN _get_default_analysis
  ELSE Loaded(JsonLoads(CleanResponse(outcome.text)))

(***************************************************************************)
(* NewsAnalysis                                                            *)
(***************************************************************************)
\* result.get(field, default); "error" is the AttributeError of a value that
\* is no dict
Get(x, field, default) ==
  IF x.t # "obj" THEN [raised |-> TRUE, val |-> Null]
  ELSE [raised |-> FALSE,
        val |-> IF K(field) \in DOMAIN x.v THEN x.v[K(field)] ELSE default]

\* a float field takes a number or a string that reads as one
FloatOk(x) == x.t = "num" \/ (x.t = "str" /\ Len(x.v) = 1 /\ x.v[1] \in NumTokens)
FloatOf(x) == IF x.t = "num" THEN x.v ELSE NumValue(x.v[1])

StrOk(x) == x.t = "str"

StrListOk(x) == x.t = "list" /\ \A i \in 1..Len(x.v) : x.v[i].t = "str"
StrListOf(x) == [i \in 1..Len(x.v) |-> x.v[i].v]

\* lines 268-279 and 376-387: the record built from an analysis result; ok
\* is FALSE when .get or the field validation raises
NewsAnalysis(id, headline, content, source, url, published, result, ts) ==
  LET mc == Get(result, "mentioned_companies", List(<<>>))
      ss == Get(result, "sentiment_score", Num(0))
      sl == Get(result, "sentiment_label", W("NEUTRAL"))
      im == Get(result, "impact_score", Num(500))
      kp == Get(result, "key_points", List(<<>>))
  IN IF result.t # "obj" \/ ~StrListOk(mc.val) \/ ~FloatOk(ss.val) \/ ~StrOk(sl.val)
        \/ ~FloatOk(im.val) \/ ~StrListOk(kp.val)
     THEN [ok |-> FALSE, rec |-> Null]
     ELSE [ok |-> TRUE,
           rec |-> [id |-> id, headline |-> headline, content |-> content,
                    source |-> source, url |-> url, published_date |-> published,
                    mentioned_companies |-> StrListOf(mc.val),
                    sentiment_score |-> FloatOf(ss.val),
                    sentiment_label |-> sl.val.v,
                    impact_score |-> FloatOf(im.val),
                    key_points |-> StrListOf(kp.val),
                    analysis_timestamp |-> ts]]

(***************************************************************************)
(* Provider responses                                                      *)
(***************************************************************************)
\* a JSON object as written: its members in order
JObj(pairs) == [t |-> "jobj", v |-> pairs]

\* the Python value a JSON document stands for
Value(d) ==
  IF d.t = "jobj" THEN Obj(Dict(d.v)) ELSE d

RECURSIVE Ser(_), SerItems(_), SerPairs(_)
\* the JSON text of a document
Ser(d) ==
  CASE d.t = "num" -> <<NumToken(d.v)>>
    [] d.t = "str" -> <<QUOTE>> \o d.v \o <<QUOTE>>
    [] d.t = "null" -> <<"null">>
    [] d.t = "list" -> <<"[">> \o SerItems(d.v) \o <<"]">>
    [] d.t = "jobj" -> <<"{">> \o SerPairs(d.v) \o <<"}">>

SerItems(l) ==
  IF l = <<>> THEN <<>>
  ELSE IF Len(l) = 1 THEN Ser(l[1])
  ELSE Ser(l[1]) \o <<",">> \o SerItems(Tail(l))

SerPairs(ps) ==
  IF ps = <<>> THEN <<>>
  ELSE LET one == <<QUOTE>> \o ps[1][1] \o <<QUOTE, ":">> \o Ser(ps[1][2])
       IN IF Len(ps) = 1 THEN one ELSE one \o <<",", NL>> \o SerPairs(Tail(ps))

FieldNames(l) == List([i \in 1..Len(l) |-> W(l[i])])

\* JSON objects a provider may answer with
JsonObjects ==
  << JObj(<< <<K("sentiment_score"), Num(80)>>, <<K("sentiment_label"), W("BULLISH")>>,
             <<K("impact_score"), Num(800)>>,
             <<K("mentioned_companies"), List(<<W("Apple"), W("AAPL")>>)>>,
             <<K("key_points"), List(<<W("strong earnings"), W("iPhone growth")>>)>>,
             <<K("reasoning"), W("earnings beat")>> >>),
     JObj(<<>>),
     JObj(<< <<K("sentiment_score"), Num(-60)>>, <<K("sentiment_label"), W("BEARISH")>>,
             <<K("note"), Null>> >>),
     JObj(<< <<K("sentiment_score"), Num(250)>>, <<K("sentiment_label"), W("HOT")>>,
             <<K("impact_score"), Num(1100)>> >>),
     JObj(<< <<K("sentiment_score"), Null>>, <<K("impact_score"), Num(500)>> >>),
     JObj(<< <<K("sentiment_score"), W("high")>> >>),
     JObj(<< <<K("sentiment_score"), W("0.8")>>, <<K("mentioned_companies"), W("AAPL")>> >>),
     JObj(<< <<K("key_points"), List(<<Str(<<"see", FENCE, "below">>)>>)>> >>),
     JObj(<< <<K("reasoning"), Str(<<FENCE, TAG>>)>>, <<K("impact_score"), Num(800)>> >>) >>

\* JSON values that are no object
JsonOthers ==
  << List(<<>>), FieldNames(required_fields), FieldNames(SubSeq(required_fields, 1, 4)),
     W("fine"), Str(required_fields), Num(500), Null >>

JsonDocs == JsonObjects \o JsonOthers

\* text that is no JSON
Garbage ==
  { <<>>, <<"Sorry">>, <<"{">>, <<"{", QUOTE, "a", QUOTE, ":", "}">>,
    <<"[", "5", ",", "]">>, <<"5", "Sorry">>, <<"{", "}", "{", "}">>,
    <<QUOTE, "a", NL, QUOTE>>, <<FENCE, TAG>>, <<FENCE, TAG, NL, "Sorry", NL, FENCE>>,
    <<FENCE, "Sorry", FENCE>>, <<FENCE>> }

\* a text in a fenced code block, tagged as JSON or untagged
Tagged(text) == <<FENCE, TAG, NL>> \o text \o <<NL, FENCE>>
Untagged(text) == <<FENCE, NL>> \o text \o <<NL, FENCE>>
Padded(text) == <<NL>> \o text \o <<NL, NL>>

JsonTexts == {Ser(JsonDocs[i]) : i \in 1..Len(JsonDocs)}

Texts ==
  JsonTexts \cup {Tagged(j) : j \in JsonTexts} \cup {Untagged(j) : j \in JsonTexts}
    \cup {Padded(j) : j \in JsonTexts} \cup {Tagged(j) \o <<NL, "Sorry">> : j \in JsonTexts}
    \cup Garbage

Raise == [kind |-> "raise", text |-> <<>>]
Text(x) == [kind |-> "text", text |-> x]

\* line 160: what chat.send_message may do
ProviderOutcomes == {Raise} \cup {Text(x) : x \in Texts}

(***************************************************************************)
(* Stored analyses for the read endpoints                                  *)
(***************************************************************************)
\* company identifiers spelled in letters, and tickers kept whole
Letters(l) == Str(l)

Analysis(score, label, impact, companies) ==
  JObj(<< <<K("sentiment_score"), Num(score)>>, <<K("sentiment_label"), W(label)>>,
          <<K("impact_score"), Num(impact)>>, <<K("mentioned_companies"), List(companies)>>,
          <<K("key_points"), List(<<W("point")>>)>> >>)

\* the label need not agree with the score: the provider's label is kept
ReadObjects ==
  << Analysis(20, "BEARISH", 500,
              <<Letters(<<"a", "b">>), W("MSFT"), W("TSLA"), W("NVDA"), W("META"), W("AMZN")>>),
     Analysis(21, "BULLISH", 800,
              <<Letters(<<"A", "B">>), Letters(<<"a", "b", "c">>), Letters(<<"c">>),
                W("JPM"), W("GS"), W("PFE")>>),
     Analysis(-20, "NEUTRAL", 500, <<Letters(<<"a", "b">>), Letters(<<"a", "b">>)>>),
     Analysis(-21, "BEARISH", 800, <<Letters(<<"c">>)>>) >>

\* answers to POST /analyze, in a fenced block
ReadOutcomes == {Text(Tagged(Ser(ReadObjects[i]))) : i \in 1..3}

ReadOutcome(i) == Text(Ser(ReadObjects[i]))

\* what the provider answers to the four sample articles
ReadBatches ==
  { <<ReadOutcome(1), ReadOutcome(2), ReadOutcome(3), ReadOutcome(4)>>,
    <<ReadOutcome(1), ReadOutcome(1), ReadOutcome(2), ReadOutcome(4)>> }

\* path parameters of GET /company/{symbol}
Symbols == { <<"a", "b">>, <<".">>, <<"b", "b">> }

Days == {1, 7}

\* the server's time zone: UTC-10, UTC, UTC+10
TzOffsets == {-10, 0, 10}

\* every provider outcome of the model
Outcomes ==
  ProviderOutcomes \cup ReadOutcomes \cup {ReadOutcome(i) : i \in 1..Len(ReadObjects)}

\* Normalize, computed once per outcome
NormalizeMemo == [o \in Outcomes |-> Normalize(o)]

\* variant for the sensitivity of C7: the credential check inside the try
\* block, so that its exception ends in the fallback
AnalyzeNewsCheckedInTry(key, outcome) ==
  IF ~key
  THEN [raised |-> FALSE, val |-> _get_default_analysis, called |-> FALSE]
  ELSE [raised |-> FALSE, val |-> NormalizeMemo[outcome], called |-> TRUE]

\* lines 117-189: analyze_news; raised is the HTTPException of line 120,
\* which leaves before the provider is called (called: send_message ran)
analyze_news(key, outcome) ==
  IF ~key
  THEN [raised |-> TRUE, val |-> Null, called |-> FALSE]
  ELSE [raised |-> FALSE, val |-> NormalizeMemo[outcome], called |-> TRUE]

(***************************************************************************)
(* Requests                                                                *)
(***************************************************************************)
\* a field the request body leaves out
ABSENT == "ABSENT"
None == "None"

\* bodies of POST /analyze
Requests ==
  { [headline |-> "Apple Reports Record Q4 Earnings", content |-> "Apple Inc. announced",
     source |-> "Reuters", url |-> "https://example.com/a"],
    [headline |-> "Apple Reports Record Q4 Earnings", content |-> "Apple Inc. announced",
     source |-> ABSENT, url |-> ABSENT],
    [headline |-> "", content |-> "Apple Inc. announced", source |-> ABSENT, url |-> ABSENT],
    [headline |-> "Apple Reports Record Q4 Earnings", content |-> ABSENT,
     source |-> "Reuters", url |-> ABSENT] }

\* lines 106-110: the request model; a body without headline or content is
\* refused before the handler runs, an omitted source or url gets its default
AnalysisRequestOk(body) == body.headline # ABSENT /\ body.content # ABSENT

AnalysisRequest(body) ==
  [headline |-> body.headline, content |-> body.content,
   source |-> IF body.source = ABSENT THEN "manual" ELSE body.source,
   url |-> IF body.url = ABSENT THEN None ELSE body.url]

\* lines 215-244: the built-in sample articles; published_date is taken at
\* import, local time
SAMPLE_NEWS ==
  << [headline |-> "Apple Reports Record Q4 Earnings, iPhone Sales Surge 15%",
      content |-> "Apple Inc. announced today", source |-> "Financial Times", url |-> "https://example.com/apple-earnings",
      published_date |-> tz - 2],
     [headline |-> "Tesla Stock Drops 12% After Production Delays Announcement",
      content |-> "Tesla shares plummeted", source |-> "Reuters",
      url |-> "https://example.com/tesla-delays",
      published_date |-> tz - 4],
     [headline |-> "Microsoft Azure Revenue Grows 30% as AI Demand Soars",
      content |-> "Microsoft Corporation reported", source |-> "Bloomberg", url |-> "https://example.com/microsoft-azure",
      published_date |-> tz - 6],
     [headline |-> "Fed Signals Potential Rate Cut as Inflation Cools",
      content |-> "Federal Reserve officials hinted", source |-> "Wall Street Journal", url |-> "https://example.com/fed-rates",
      published_date |-> tz - 8] >>

(***************************************************************************)
(* The clock                                                               *)
(***************************************************************************)
\* datetime.utcnow() and datetime.now()
utcnow == now
localnow == now + tz

(***************************************************************************)
(* Responses                                                               *)
(***************************************************************************)
Response(op, status, body) == [op |-> op, status |-> status, body |-> body]

\* no request was handled
NoResponse == Response("none", 0, Null)

\* a request as a handler receives it: its parameters and whether the
\* database calls it makes succeed
Request(op, args) == [op |-> op, args |-> args]

\* no request was handled
NoRequest == Request("none", <<>>)

\* one analyze_news call: the provider's outcome and what the call gave
Call(outcome, r) == [outcome |-> outcome, raised |-> r.raised, val |-> r.val]

(***************************************************************************)
(* POST /analyze and the deferred save                                     *)
(***************************************************************************)
\* lines 260-288
analyze_news_article(body, outcome) ==
  IF ~AnalysisRequestOk(body)
  THEN /\ resp' = Response("analyze", 422, Null)
       /\ req' = Request("analyze", [body |-> body])
       /\ svc' = <<>>
       /\ UNCHANGED <<apiKey, tz, now, db, tasks, nextId, providerCalled, provider>>
  ELSE LET request == AnalysisRequest(body)
           r == analyze_news(apiKey, outcome)
           a == IF r.raised
                THEN [ok |-> FALSE, rec |-> Null]
                ELSE NewsAnalysis(nextId, request.headline, request.content,
                                  request.source, request.url, localnow, r.val, utcnow)
       IN /\ svc' = <<Call(outcome, r)>>
          /\ req' = Request("analyze", [body |-> body])
          /\ providerCalled' = (providerCalled \/ r.called)
          /\ IF a.ok
             THEN /\ tasks' = tasks \cup {a.rec}
                  /\ nextId' = nextId + 1
                  /\ resp' = Response("analyze", 200, a.rec)
             ELSE /\ resp' = Response("analyze", 500, Null)
                  /\ UNCHANGED <<tasks, nextId>>
          /\ UNCHANGED <<apiKey, tz, now, db, provider>>

\* variant for the sensitivity of C15: a failed insert left among the tasks
\* to be run again
SaveWithRetry(analysis, inserted) ==
  /\ analysis \in tasks
  /\ tasks' = IF inserted THEN tasks \ {analysis} ELSE tasks
  /\ db' = IF inserted THEN Append(db, analysis) ELSE db
  /\ svc' = <<>>
  /\ resp' = NoResponse
  /\ req' = Request("save", <<>>)
  /\ UNCHANGED <<apiKey, tz, now, nextId, providerCalled, provider>>

\* lines 401-407: the background task; a failed insert is logged and dropped
save_analysis_to_db(analysis, inserted) ==
  /\ analysis \in tasks
  /\ tasks' = tasks \ {analysis}
  /\ db' = IF inserted THEN Append(db, analysis) ELSE db
  /\ svc' = <<>>
  /\ resp' = NoResponse
  /\ req' = Request("save", <<>>)
  /\ UNCHANGED <<apiKey, tz, now, nextId, providerCalled, provider>>

(***************************************************************************)
(* Cursor helpers: sort, limit, to_list                                    *)
(***************************************************************************)
Reverse(s) == [i \in 1..Len(s) |-> s[Len(s) + 1 - i]]

Take(s, n) == SubSeq(s, 1, IF n < Len(s) THEN n ELSE Len(s))

\* place p after every element whose key is at least p.k
InsertDesc(sorted, p) ==
  LET n == Cardinality({i \in 1..Len(sorted) : sorted[i].k >= p.k})
  IN SubSeq(sorted, 1, n) \o <<p>> \o SubSeq(sorted, n + 1, Len(sorted))

RECURSIVE SortPairsDesc(_)
SortPairsDesc(pairs) ==
  IF pairs = <<>>
  THEN <<>>
  ELSE InsertDesc(SortPairsDesc(SubSeq(pairs, 1, Len(pairs) - 1)), pairs[Len(pairs)])

\* the ways the database may order documents whose sort keys are equal
Ties == {"natural", "reverse"}

\* variant for the sensitivity of C13: the documents left in insertion order
InInsertionOrder(docs, tie) == docs

\* sort("analysis_timestamp", -1)
SortByTimestampDesc(docs, tie) ==
  LET src == IF tie = "natural" THEN docs ELSE Reverse(docs)
      sorted == SortPairsDesc([i \in 1..Len(src) |-> [k |-> src[i].analysis_timestamp, x |-> src[i]]])
  IN [i \in 1..Len(sorted) |-> sorted[i].x]

RECURSIVE SelectSeq2(_, _)
\* the elements of s at the positions in keep, in order
SelectSeq2(s, keep) ==
  IF s = <<>> THEN <<>>
  ELSE LET front == SelectSeq2(SubSeq(s, 1, Len(s) - 1), keep)
       IN IF Len(s) \in keep THEN Append(front, s[Len(s)]) ELSE front

(***************************************************************************)
(* GET /news/recent                                                        *)
(***************************************************************************)
\* lines 290-299; a negative limit makes to_list raise, which is swallowed
get_recent_analysis(limit, tie, dbOk) ==
  /\ resp' = Response("recent", 200,
                      IF dbOk /\ limit >= 0
                      THEN Take(SortByTimestampDesc(db, tie), limit)
                      ELSE <<>>)
  /\ req' = Request("recent", [limit |-> limit, dbOk |-> dbOk])
  /\ svc' = <<>>
  /\ UNCHANGED <<apiKey, tz, now, db, tasks, nextId, providerCalled, provider>>

(***************************************************************************)
(* POST /demo/populate                                                     *)
(***************************************************************************)
\* lines 372-389, for the items from position i on: the calls made and the
\* records built; stops at the first item whose analysis or record raises
RECURSIVE PopulateLoop(_, _, _, _)
PopulateLoop(i, outs, calls, recs) ==
  IF i > Len(SAMPLE_NEWS)
  THEN [ok |-> TRUE, calls |-> calls, recs |-> recs, called |-> TRUE]
  ELSE LET item == SAMPLE_NEWS[i]
           r == analyze_news(apiKey, outs[i])
           a == IF r.raised
                THEN [ok |-> FALSE, rec |-> Null]
                ELSE NewsAnalysis(nextId + Len(recs), item.headline, item.content,
                                  item.source, item.url, item.published_date, r.val, utcnow)
       IN IF a.ok
          THEN PopulateLoop(i + 1, outs, Append(calls, Call(outs[i], r)), Append(recs, a.rec))
          ELSE [ok |-> FALSE, calls |-> Append(calls, Call(outs[i], r)), recs |-> <<>>,
                called |-> r.called]

\* lines 366-399; written is the number of documents insert_many stored, all
\* of them unless it raised
populate_sample_data(outs, insertOk, written) ==
  LET loop == PopulateLoop(1, outs, <<>>, <<>>)
  IN /\ svc' = loop.calls
     /\ req' = Request("populate", <<>>)
     /\ providerCalled' = (providerCalled \/ loop.called)
     /\ IF loop.ok
        THEN /\ insertOk => written = Len(loop.recs)
             /\ written <= Len(loop.recs)
             /\ db' = db \o SubSeq(loop.recs, 1, written)
             /\ nextId' = nextId + Len(loop.recs)
             /\ resp' = IF insertOk
                        THEN Response("populate", 200, Len(loop.recs))
                        ELSE Response("populate", 500, Null)
        ELSE /\ insertOk /\ written = 0
             /\ resp' = Response("populate", 500, Null)
             /\ UNCHANGED <<db, nextId>>
     /\ UNCHANGED <<apiKey, tz, now, tasks, provider>>

(***************************************************************************)
(* GET /trends                                                             *)
(***************************************************************************)
\* timedelta(days=1), in hours
HoursPerDay == 24

\* {"$limit": 10} and to_list(10)
TopN == 10

Frac(sum, n) == [num |-> sum, den |-> n]

RECURSIVE SumSeq(_)
SumSeq(s) == IF s = <<>> THEN 0 ELSE s[1] + SumSeq(Tail(s))

\* {"$match": {"analysis_timestamp": {"$gte": since}}}
MatchSince(docs, since) ==
  SelectSeq2(docs, {i \in 1..Len(docs) : docs[i].analysis_timestamp >= since})

\* {"$unwind": "$mentioned_companies"}: one row per list element
RECURSIVE Unwind(_)
Unwind(docs) ==
  IF docs = <<>>
  THEN <<>>
  ELSE LET d == docs[1]
       IN [i \in 1..Len(d.mentioned_companies) |->
             [company |-> d.mentioned_companies[i], sentiment_score |-> d.sentiment_score,
              impact_score |-> d.impact_score]]
          \o Unwind(Tail(docs))

\* the distinct values of s, in order of first occurrence
RECURSIVE Distinct(_)
Distinct(s) ==
  IF s = <<>>
  THEN <<>>
  ELSE LET front == Distinct(SubSeq(s, 1, Len(s) - 1))
           x == s[Len(s)]
       IN IF \E i \in 1..Len(front) : front[i] = x THEN front ELSE Append(front, x)

\* the "$group" stage
GroupRows(rows) ==
  LET ids == Distinct([i \in 1..Len(rows) |-> rows[i].company])
      of(c) == SelectSeq2(rows, {i \in 1..Len(rows) : rows[i].company = c})
  IN [g \in 1..Len(ids) |->
        LET mine == of(ids[g])
        IN [_id |-> ids[g], count |-> Len(mine),
            avg_sentiment |-> Frac(SumSeq([i \in 1..Len(mine) |-> mine[i].sentiment_score]), Len(mine)),
            avg_impact |-> Frac(SumSeq([i \in 1..Len(mine) |-> mine[i].impact_score]), Len(mine))]]

\* variant for the sensitivity of C9: the groups left in the order $group
\* produced them
GroupsUnsorted(groups, tie) == groups

\* {"$sort": {"count": -1}}
SortByCountDesc(groups, tie) ==
  LET src == IF tie = "natural" THEN groups ELSE Reverse(groups)
      sorted == SortPairsDesc([i \in 1..Len(src) |-> [k |-> src[i].count, x |-> src[i]]])
  IN [i \in 1..Len(sorted) |-> sorted[i].x]

\* lines 306-321: the aggregation
Trending(docs, yesterday, tie) ==
  Take(SortByCountDesc(GroupRows(Unwind(MatchSince(docs, yesterday))), tie), TopN)

\* variant for the sensitivity of C14: a failed count answered with total 0
\* next to the groups the aggregation gave
GetTrendingTopicsCountGuarded(tie, aggOk, countOk) ==
  /\ resp' = Response("trends", 200,
                      IF aggOk
                      THEN [trending_companies |-> Trending(db, localnow - HoursPerDay, tie),
                            analysis_period |-> "24h",
                            total_analyses |-> IF countOk THEN Len(db) ELSE 0]
                      ELSE [trending_companies |-> <<>>, analysis_period |-> "24h",
                            total_analyses |-> 0])
  /\ req' = Request("trends", [aggOk |-> aggOk, countOk |-> countOk])
  /\ svc' = <<>>
  /\ UNCHANGED <<apiKey, tz, now, db, tasks, nextId, providerCalled, provider>>

\* lines 301-330
get_trending_topics(tie, aggOk, countOk) ==
  /\ resp' = Response("trends", 200,
                      IF aggOk /\ countOk
                      THEN [trending_companies |-> Trending(db, localnow - HoursPerDay, tie),
                            analysis_period |-> "24h", total_analyses |-> Len(db)]
                      ELSE [trending_companies |-> <<>>, analysis_period |-> "24h",
                            total_analyses |-> 0])
  /\ req' = Request("trends", [aggOk |-> aggOk, countOk |-> countOk])
  /\ svc' = <<>>
  /\ UNCHANGED <<apiKey, tz, now, db, tasks, nextId, providerCalled, provider>>

(***************************************************************************)
(* GET /company/{symbol}                                                   *)
(***************************************************************************)
\* to_list(50)
HistoryCap == 50

\* lower case of a letter chunk
Lower(c) ==
  CASE c = "A" -> "a" [] c = "B" -> "b" [] c = "C" -> "c" [] OTHER -> c

\* one pattern character against one character, case-insensitive; a dot
\* matches any character
CharMatch(p, c) == p = "." \/ Lower(p) = Lower(c)

\* {"$regex": symbol, "$options": "i"} on one string: the pattern occurs in it
RegexSearch(symbol, str) ==
  \E i \in 1..(Len(str) - Len(symbol) + 1) :
    \A j \in 1..Len(symbol) : CharMatch(symbol[j], str[i + j - 1])

\* lines 339-342: the find; an array field matches when one element does
FindCompany(docs, symbol, since) ==
  SelectSeq2(docs, {i \in 1..Len(docs) :
                      /\ \E c \in 1..Len(docs[i].mentioned_companies) :
                           RegexSearch(symbol, docs[i].mentioned_companies[c])
                      /\ docs[i].analysis_timestamp >= since})

\* round(a / b) for b > 0, ties to even
RoundDiv(a, b) ==
  LET q == a \div b
      r == a - q * b
  IN IF 2 * r < b THEN q
     ELSE IF 2 * r > b THEN q + 1
     ELSE IF q % 2 = 0 THEN q ELSE q + 1

\* variant for the sensitivity of C10: the label taken from the mean rounded
\* to two places
SummaryLabelOfRounded(sum, n) ==
  IF RoundDiv(sum, n) > 20 THEN "BULLISH" ELSE IF RoundDiv(sum, n) < -20 THEN "BEARISH" ELSE "NEUTRAL"

\* line 358, for the mean sum/n of scores in hundredths
SummaryLabel(sum, n) ==
  IF sum > 20 * n THEN "BULLISH" ELSE IF sum < -20 * n THEN "BEARISH" ELSE "NEUTRAL"

\* lines 347-360
Summary(analyses, days) ==
  LET n == Len(analyses)
      sent == SumSeq([i \in 1..n |-> analyses[i].sentiment_score])
      imp == SumSeq([i \in 1..n |-> analyses[i].impact_score])
  IN [total_mentions |-> n,
      avg_sentiment_score |-> RoundDiv(sent, n),
      avg_impact_score |-> 10 * RoundDiv(imp, 10 * n),
      sentiment_label |-> SummaryLabel(sent, n),
      analysis_period_days |-> days]

\* lines 337-342
CompanyAnalyses(docs, symbol, since, tie) ==
  Take(SortByTimestampDesc(FindCompany(docs, symbol, since), tie), HistoryCap)

\* variant for the sensitivity of C12: the summary computed without the
\* check for an empty list, so that its division by zero ends in the 500
GetCompanyAnalysisUnguarded(symbol, days, tie, dbOk) ==
  LET analyses == CompanyAnalyses(db, symbol, localnow - HoursPerDay * days, tie)
  IN /\ resp' = IF ~dbOk \/ analyses = <<>>
                THEN Response("company", 500, Null)
                ELSE Response("company", 200,
                              [symbol |-> symbol, analyses |-> analyses,
                               summary |-> Summary(analyses, days)])
     /\ req' = Request("company", [symbol |-> symbol, days |-> days, dbOk |-> dbOk])
     /\ svc' = <<>>
     /\ UNCHANGED <<apiKey, tz, now, db, tasks, nextId, providerCalled, provider>>

\* lines 332-364
get_company_analysis(symbol, days, tie, dbOk) ==
  LET analyses == CompanyAnalyses(db, symbol, localnow - HoursPerDay * days, tie)
  IN /\ resp' = IF ~dbOk
                THEN Response("company", 500, Null)
                ELSE IF analyses = <<>>
                THEN Response("company", 200,
                              [symbol |-> symbol, analyses |-> <<>>,
                               summary |-> "No recent analysis found"])
                ELSE Response("company", 200,
                              [symbol |-> symbol, analyses |-> analyses,
                               summary |-> Summary(analyses, days)])
     /\ req' = Request("company", [symbol |-> symbol, days |-> days, dbOk |-> dbOk])
     /\ svc' = <<>>
     /\ UNCHANGED <<apiKey, tz, now, db, tasks, nextId, providerCalled, provider>>

(***************************************************************************)
(* Time passes                                                             *)
(***************************************************************************)
TickHours == 15
MaxTicks == 2

Tick ==
  /\ now < MaxTicks * TickHours
  /\ now' = now + TickHours
  /\ svc' = <<>>
  /\ resp' = NoResponse
  /\ req' = NoRequest
  /\ UNCHANGED <<apiKey, tz, db, tasks, nextId, providerCalled, provider>>

(***************************************************************************)
(* Specifications                                                          *)
(***************************************************************************)
MaxAnalyses == 1

Limits == {-1, 0, 1, 2, 4, 20}

InitWith(keys, zones, outcomes) ==
  /\ apiKey \in keys
  /\ tz \in zones
  /\ now = 0
  /\ db = <<>>
  /\ tasks = {}
  /\ nextId = 1
  /\ providerCalled = FALSE
  /\ provider \in outcomes
  /\ svc = <<>>
  /\ resp = NoResponse
  /\ req = NoRequest

\* the analysis path: one provider behaviour per run
Init == InitWith(BOOLEAN, {0}, ProviderOutcomes)

Analyze ==
  /\ nextId <= MaxAnalyses
  /\ \E body \in Requests : analyze_news_article(body, provider)

Save == \E a \in tasks : \E inserted \in BOOLEAN : save_analysis_to_db(a, inserted)

\* line 291: limit: int = 20
DefaultLimit == 20

\* GET /news/recent without a limit parameter
Recent == \E tie \in Ties, dbOk \in BOOLEAN : get_recent_analysis(DefaultLimit, tie, dbOk)

Populate ==
  /\ nextId - 1 <= MaxAnalyses
  /\ \E insertOk \in BOOLEAN, written \in 0..Len(SAMPLE_NEWS) :
       populate_sample_data(<<provider, provider, provider, provider>>, insertOk, written)

Next == Analyze \/ Save \/ Recent \/ Populate

Spec == Init /\ [][Next]_vars

\* the read endpoints over analyses made at different moments
InitReads == InitWith({TRUE}, TzOffsets, {Raise})

AnalyzeRead ==
  /\ nextId <= MaxAnalyses
  /\ \E body \in Requests, o \in ReadOutcomes :
       body.headline # "" /\ body.source = ABSENT /\ analyze_news_article(body, o)

SaveRead == \E a \in tasks : save_analysis_to_db(a, TRUE)

PopulateRead ==
  /\ nextId - 1 <= MaxAnalyses
  /\ \E outs \in ReadBatches : populate_sample_data(outs, TRUE, Len(SAMPLE_NEWS))

Trends == \E tie \in Ties, aggOk \in BOOLEAN, countOk \in BOOLEAN : get_trending_topics(tie, aggOk, countOk)

Company ==
  \E symbol \in Symbols, days \in Days, tie \in Ties, dbOk \in BOOLEAN :
    get_company_analysis(symbol, days, tie, dbOk)

NextTrends == AnalyzeRead \/ SaveRead \/ PopulateRead \/ Tick \/ Trends

SpecTrends == InitReads /\ [][NextTrends]_vars

NextCompany == AnalyzeRead \/ SaveRead \/ PopulateRead \/ Tick \/ Company

InitCompany == InitWith({TRUE}, {0}, {Raise})

SpecCompany == InitCompany /\ [][NextCompany]_vars

\* GET /news/recent with a limit parameter, over analyses made at different
\* moments
RecentLimited ==
  \E limit \in Limits, tie \in Ties, dbOk \in BOOLEAN : get_recent_analysis(limit, tie, dbOk)

NextRecent == AnalyzeRead \/ SaveRead \/ PopulateRead \/ Tick \/ RecentLimited

SpecRecent == InitCompany /\ [][NextRecent]_vars

\* the three read endpoints with failing database calls
NextFaults == PopulateRead \/ Tick \/ RecentLimited \/ Trends \/ Company

SpecFaults == InitCompany /\ [][NextFaults]_vars

\* a history longer than the cap of GET /company/{symbol}: the sample
\* articles populated again and again, each of them mentioning ab
MaxStored == 51

HistoryBatch == <<ReadOutcome(1), ReadOutcome(2), ReadOutcome(3), ReadOutcome(1)>>

PopulateHistory ==
  /\ Len(db) < MaxStored
  /\ populate_sample_data(HistoryBatch, TRUE, Len(SAMPLE_NEWS))

CompanyHistory ==
  \E symbol \in Symbols, days \in Days, tie \in Ties :
    get_company_analysis(symbol, days, tie, TRUE)

NextHistory == PopulateHistory \/ Tick \/ CompanyHistory

SpecHistory == InitCompany /\ [][NextHistory]_vars

(***************************************************************************)
(* Properties of the analysis path (under Spec)                            *)
(***************************************************************************)
\* the step just taken handled POST /analyze and ran the handler body
Analyzed == resp.op = "analyze" /\ svc # <<>>

\* the text the provider gave is one of the texts that are no JSON, or does
\* not decode as JSON once the fence is off
Undecodable(outcome) ==
  /\ outcome.kind = "text"
  /\ (outcome.text \in Garbage \/ ~JsonLoads(CleanResponse(outcome.text)).ok)

\* the fixed fallback object, as documented
FallbackObject ==
  Obj(Dict(<< <<K("sentiment_score"), Num(0)>>,
              <<K("sentiment_label"), W("NEUTRAL")>>,
              <<K("impact_score"), Num(500)>>,
              <<K("mentioned_companies"), List(<<>>)>>,
              <<K("key_points"), List(<<W("Analysis temporarily unavailable")>>)>>,
              <<K("reasoning"), W("AI analysis service temporarily unavailable")>> >>))

\* C1: with the credential configured, POST /analyze answers 200 for every
\* provider outcome.  The code violates it: a provider answer whose values
\* have the wrong type, or that is a list or a string naming all required
\* fields, ends in a 500.
C1_OnlyMissingKeyFails == (apiKey /\ Analyzed) => resp.status = 200

\* C2: with a credential, a provider exception or an undecodable text makes
\* analyze_news return exactly the fixed fallback object, raising nothing, and
\* POST /analyze answers 200 with the fallback's values.
C2_FallbackOnFailure ==
  apiKey =>
    /\ \A i \in 1..Len(svc) :
         (svc[i].outcome.kind = "raise" \/ Undecodable(svc[i].outcome))
           => ~svc[i].raised /\ svc[i].val = FallbackObject
    /\ (Analyzed /\ (svc[1].outcome.kind = "raise" \/ Undecodable(svc[1].outcome)))
         => /\ resp.status = 200
            /\ resp.body.sentiment_score = 0
            /\ resp.body.sentiment_label = <<"NEUTRAL">>
            /\ resp.body.impact_score = 500
            /\ resp.body.mentioned_companies = <<>>
            /\ resp.body.key_points = << <<"Analysis temporarily unavailable">> >>

\* C2 witness: an undecodable text was answered with a 200
C2_Witness ==
  /\ apiKey /\ Analyzed /\ resp.status = 200
  /\ svc[1].outcome.kind = "text" /\ svc[1].outcome.text \in Garbage

\* C3: whatever text the provider gives, analyze_news returns a mapping with
\* the five required keys.  The code violates it: a JSON list or string that
\* names all five fields is returned as it is.
C3_ResultIsMapping ==
  \A i \in 1..Len(svc) :
    (apiKey /\ svc[i].outcome.kind = "text")
      => /\ ~svc[i].raised
         /\ svc[i].val.t = "obj"
         /\ \A f \in 1..Len(required_fields) : K(required_fields[f]) \in DOMAIN svc[i].val.v

\* what the Normalizer gives for the unwrapped JSON text j
Unwrapped(j) == Normalize(Text(j))

\* C4: a JSON text in a fenced block, tagged or untagged, gives the same
\* result as the text unwrapped.  The code violates it when a string of the
\* JSON holds a fence marker: the text is cut there and no longer decodes.
C4_FenceTransparent ==
  \A i \in 1..Len(svc) :
    \A j \in JsonTexts :
      (apiKey /\ svc[i].outcome.kind = "text"
         /\ (svc[i].outcome.text = Tagged(j) \/ svc[i].outcome.text = Untagged(j)))
        => svc[i].val = Unwrapped(j)

\* the documented default of a required field
DocumentedDefault(field) ==
  CASE field = "sentiment_score" -> Num(0)
    [] field = "sentiment_label" -> W("NEUTRAL")
    [] field = "impact_score" -> Num(500)
    [] field = "mentioned_companies" -> List(<<>>)
    [] field = "key_points" -> List(<<>>)

RequiredKeys == {K(required_fields[f]) : f \in 1..Len(required_fields)}

\* the keys of a JSON object as written
KeysOf(d) == {d.v[m][1] : m \in 1..Len(d.v)}

\* the value given to key k in the JSON object d (the last, if repeated)
Member(d, k) == d.v[CHOOSE m \in 1..Len(d.v) : d.v[m][1] = k /\ \A n \in (m + 1)..Len(d.v) : d.v[n][1] # k][2]

\* C5: for a provider answer that is a JSON object, the result has every key
\* of the input with its value, each absent required key with its documented
\* default, and no other key.
C5_KeysPreservedAndFilled ==
  \A i \in 1..Len(svc) :
    \A d \in 1..Len(JsonObjects) :
      (apiKey /\ svc[i].outcome.kind = "text"
         /\ (svc[i].outcome.text = Ser(JsonObjects[d]) \/ svc[i].outcome.text = Padded(Ser(JsonObjects[d]))))
        => /\ ~svc[i].raised
           /\ svc[i].val.t = "obj"
           /\ DOMAIN svc[i].val.v = KeysOf(JsonObjects[d]) \cup RequiredKeys
           /\ \A k \in KeysOf(JsonObjects[d]) : svc[i].val.v[k] = Member(JsonObjects[d], k)
           /\ \A f \in 1..Len(required_fields) :
                K(required_fields[f]) \notin KeysOf(JsonObjects[d])
                  => svc[i].val.v[K(required_fields[f])] = DocumentedDefault(required_fields[f])

\* C5 witness: an object that lacks required keys and has one of its own was
\* normalised
C5_Witness ==
  /\ apiKey /\ svc # <<>>
  /\ svc[1].outcome.kind = "text" /\ svc[1].outcome.text = Ser(JsonObjects[3])
  /\ svc[1].val.t = "obj" /\ K("note") \in DOMAIN svc[1].val.v

\* the domain constraints of a NewsAnalysis
InDomain(a) ==
  /\ a.sentiment_score >= -100 /\ a.sentiment_score <= 100
  /\ a.sentiment_label \in { <<"BULLISH">>, <<"BEARISH">>, <<"NEUTRAL">> }
  /\ a.impact_score >= 0 /\ a.impact_score <= 1000

\* C6: every NewsAnalysis that POST /analyze or GET /news/recent returns is
\* within the domain constraints.  The code violates it: the provider's
\* values are passed through unchecked.
C6_AnalysesInDomain ==
  /\ (resp.op = "analyze" /\ resp.status = 200) => InDomain(resp.body)
  /\ resp.op = "recent" => \A i \in 1..Len(resp.body) : InDomain(resp.body[i])

\* C7: without a credential no provider call is ever made, every
\* analyze_news call raises instead of returning a fallback, and POST /analyze
\* answers 500.
C7_MissingKeyFailsFast ==
  ~apiKey =>
    /\ ~providerCalled
    /\ \A i \in 1..Len(svc) : svc[i].raised
    /\ Analyzed => resp.status = 500

\* C7 witness: POST /analyze was answered without a credential
C7_Witness == ~apiKey /\ Analyzed /\ resp.status = 500

(***************************************************************************)
(* Properties of GET /trends (under SpecTrends)                            *)
(***************************************************************************)
\* the step just taken answered GET /trends from the database
TrendsAnswered == resp.op = "trends" /\ resp.body.total_analyses = Len(db)

\* how often company c occurs in the mentioned_companies lists of the stored
\* records at the positions in S
Occurrences(c, S) ==
  Cardinality({p \in S \X (1..6) :
                 /\ p[2] <= Len(db[p[1]].mentioned_companies)
                 /\ db[p[1]].mentioned_companies[p[2]] = c})

\* the companies the stored records at the positions in S mention
Mentioned(S) ==
  UNION {{db[i].mentioned_companies[j] : j \in 1..Len(db[i].mentioned_companies)} : i \in S}

\* the records analysed within the 24 hours before this moment
Last24Hours == {i \in 1..Len(db) : db[i].analysis_timestamp >= now - HoursPerDay}

Returned(groups) == {groups[g]._id : g \in 1..Len(groups)}

\* C8: whatever the server's time zone, a returned group counts exactly the
\* mentions in records analysed within the last 24 hours, and every such
\* mention has its group (unless ten groups are already returned).  The code
\* violates it: the threshold is taken from the local clock and compared with
\* UTC timestamps.
C8_WindowIsLast24Hours ==
  TrendsAnswered =>
    LET groups == resp.body.trending_companies
    IN /\ \A g \in 1..Len(groups) : groups[g].count = Occurrences(groups[g]._id, Last24Hours)
       /\ Len(groups) < TopN => Mentioned(Last24Hours) \subseteq Returned(groups)

\* the records the handler's own threshold selects
Windowed == {i \in 1..Len(db) : db[i].analysis_timestamp >= now + tz - HoursPerDay}

\* C9: GET /trends returns at most 10 groups, one per company, in
\* non-increasing order of count; a count is the number of occurrences of the
\* company in the windowed records; no omitted company has more occurrences
\* than a returned one, and none is omitted while fewer than 10 are returned.
C9_TopTenByCount ==
  TrendsAnswered =>
    LET groups == resp.body.trending_companies
    IN /\ Len(groups) <= 10
       /\ \A g, h \in 1..Len(groups) : g < h => groups[g].count >= groups[h].count
       /\ \A g, h \in 1..Len(groups) : g # h => groups[g]._id # groups[h]._id
       /\ \A g \in 1..Len(groups) :
            groups[g].count >= 1 /\ groups[g].count = Occurrences(groups[g]._id, Windowed)
       /\ \A c \in Mentioned(Windowed) \ Returned(groups) :
            /\ Len(groups) = 10
            /\ \A g \in 1..Len(groups) : Occurrences(c, Windowed) <= groups[g].count

\* C9 witness: ten groups of unequal counts were returned and others left out
C9_Witness ==
  /\ TrendsAnswered
  /\ Len(resp.body.trending_companies) = 10
  /\ resp.body.trending_companies[1].count > resp.body.trending_companies[10].count
  /\ Mentioned(Windowed) \ Returned(resp.body.trending_companies) # {}

(***************************************************************************)
(* Properties of GET /company/{symbol} (under SpecCompany)                 *)
(***************************************************************************)
\* the step just taken answered GET /company/{symbol} with a summary
Summarised == resp.op = "company" /\ resp.status = 200 /\ resp.body.analyses # <<>>

\* the sum of the sentiment scores the summary is taken over, in hundredths
ScoreSum == SumSeq([i \in 1..Len(resp.body.analyses) |-> resp.body.analyses[i].sentiment_score])

\* C10: the summary label is BULLISH when the mean sentiment score is above
\* 0.2, BEARISH when it is below -0.2 and NEUTRAL otherwise, 0.2 and -0.2
\* included; the mean is the unrounded one and no record's own label counts.
C10_SummaryLabelRule ==
  Summarised =>
    LET n == Len(resp.body.analyses)
        label == resp.body.summary.sentiment_label
    IN /\ ScoreSum > 20 * n => label = "BULLISH"
       /\ ScoreSum < -20 * n => label = "BEARISH"
       /\ (ScoreSum <= 20 * n /\ ScoreSum >= -20 * n) => label = "NEUTRAL"

\* C10 witness: a mean above 0.2 that rounds to 0.20 was labelled BULLISH
\* although no record summarised carries that label alone
C10_Witness ==
  /\ Summarised
  /\ ScoreSum > 20 * Len(resp.body.analyses)
  /\ resp.body.summary.avg_sentiment_score = 20
  /\ resp.body.summary.sentiment_label = "BULLISH"
  /\ \E i \in 1..Len(resp.body.analyses) : resp.body.analyses[i].sentiment_label # <<"BULLISH">>

\* the positions of the stored records that match the symbol of the request
\* within its window
Matched ==
  {i \in 1..Len(db) :
     /\ \E c \in 1..Len(db[i].mentioned_companies) :
          RegexSearch(req.args.symbol, db[i].mentioned_companies[c])
     /\ db[i].analysis_timestamp >= now + tz - HoursPerDay * req.args.days}

\* the sum of the scores and of the impacts of the matched records
MatchedSentiment == SumSeq([i \in 1..Len(db) |-> IF i \in Matched THEN db[i].sentiment_score ELSE 0])
MatchedImpact == SumSeq([i \in 1..Len(db) |-> IF i \in Matched THEN db[i].impact_score ELSE 0])

\* C11: the summary of GET /company/{symbol} is taken over every stored
\* record that matches the symbol within the window: total_mentions is their
\* number and the averages are their means, also when more than 50 match.
\* The code violates it: the summary is taken over the capped list.
C11_SummaryOverMatchedSet ==
  (req.op = "company" /\ req.args.dbOk /\ Matched # {}) =>
    /\ resp.status = 200
    /\ resp.body.summary.total_mentions = Cardinality(Matched)
    /\ resp.body.summary.avg_sentiment_score = RoundDiv(MatchedSentiment, Cardinality(Matched))
    /\ resp.body.summary.avg_impact_score = 10 * RoundDiv(MatchedImpact, 10 * Cardinality(Matched))

\* C12: when no stored record matches the symbol within the window and the
\* database answers, GET /company/{symbol} answers 200 with an empty analyses
\* list and the no-data text in place of a summary: no average is computed
\* and no error is raised.
C12_NoDataIsNoError ==
  (req.op = "company" /\ req.args.dbOk /\ Matched = {}) =>
    /\ resp.status = 200
    /\ resp.body.symbol = req.args.symbol
    /\ resp.body.analyses = <<>>
    /\ resp.body.summary = "No recent analysis found"

\* C12 witness: records are stored, none of them matches, and the answer is
\* the no-data one
C12_Witness ==
  /\ req.op = "company" /\ req.args.dbOk /\ Matched = {}
  /\ db # <<>>
  /\ resp.status = 200 /\ resp.body.analyses = <<>>

(***************************************************************************)
(* Properties of GET /news/recent (under SpecRecent)                       *)
(***************************************************************************)
\* the step just taken answered GET /news/recent?limit=N, N >= 0, from the
\* database
RecentAnswered == req.op = "recent" /\ req.args.dbOk /\ req.args.limit >= 0

ReturnedIds == {resp.body[i].id : i \in 1..Len(resp.body)}

\* C13: for a limit N >= 0, GET /news/recent returns min(N, number of stored
\* records) distinct stored records in non-increasing order of
\* analysis_timestamp, and no omitted record is later than a returned one;
\* so limit 4 after a populate gives exactly 4 records.
C13_RecentMostRecentFirst ==
  RecentAnswered =>
    /\ resp.status = 200
    /\ Len(resp.body) = (IF req.args.limit < Len(db) THEN req.args.limit ELSE Len(db))
    /\ \A i \in 1..Len(resp.body) : \E k \in 1..Len(db) : db[k] = resp.body[i]
    /\ \A i, j \in 1..Len(resp.body) :
         /\ i # j => resp.body[i].id # resp.body[j].id
         /\ i < j => resp.body[i].analysis_timestamp >= resp.body[j].analysis_timestamp
    /\ \A k \in 1..Len(db) :
         db[k].id \notin ReturnedIds
           => \A i \in 1..Len(resp.body) : db[k].analysis_timestamp <= resp.body[i].analysis_timestamp

\* C13 witness: limit 4 after a populate returned 4 records and left out a
\* stored record that is older than they are
C13_Witness ==
  /\ RecentAnswered /\ req.args.limit = 4
  /\ Len(resp.body) = 4
  /\ \E k \in 1..Len(db) :
       db[k].id \notin ReturnedIds /\ db[k].analysis_timestamp < resp.body[4].analysis_timestamp

(***************************************************************************)
(* Properties of failing lookups (under SpecFaults)                        *)
(***************************************************************************)
\* what a read endpoint answers when a database call of its fails
FaultsAnswered ==
  /\ (req.op = "recent" /\ ~req.args.dbOk) => (resp.status = 200 /\ resp.body = <<>>)
  /\ (req.op = "trends" /\ ~(req.args.aggOk /\ req.args.countOk))
       => /\ resp.status = 200
          /\ resp.body.trending_companies = <<>>
          /\ resp.body.total_analyses = 0
  /\ (req.op = "company" /\ ~req.args.dbOk) => resp.status = 500

\* a step that handles a read request leaves the stored records as they are
ReadsKeepRecords == req'.op \in {"recent", "trends", "company"} => db' = db

\* C14: a database failure gives an empty list from GET /news/recent, no
\* trending companies and total 0 from GET /trends (also when only the count
\* failed), both with status 200, and a 500 from GET /company/{symbol}; none
\* of the three endpoints changes the stored records.
C14_LookupFailures == []FaultsAnswered /\ [][ReadsKeepRecords]_vars

\* C14 witness: the aggregation had groups to give, the count failed, and
\* the answer was the zero one
C14_Witness ==
  /\ req.op = "trends" /\ req.args.aggOk /\ ~req.args.countOk
  /\ Windowed # {}
  /\ resp.status = 200 /\ resp.body.trending_companies = <<>> /\ resp.body.total_analyses = 0

(***************************************************************************)
(* Properties of the deferred save (under Spec)                            *)
(***************************************************************************)
\* a record whose write is still to be attempted is not stored
NoPendingStored == \A a \in tasks : \A k \in 1..Len(db) : db[k].id # a.id

\* a step that answers POST /analyze with an analysis leaves the stored
\* records alone and leaves the write of the answered record to be attempted
ResponseBeforeWrite ==
  (req'.op = "analyze" /\ resp'.status = 200)
    => /\ db' = db
       /\ resp'.body \notin tasks
       /\ tasks' = tasks \cup {resp'.body}

\* a step of the deferred save attempts the write of one pending record,
\* stores it or not, sends no response, and the record is pending no more
WriteOnce ==
  req'.op = "save"
    => /\ resp' = NoResponse
       /\ \E a \in tasks : tasks' = tasks \ {a} /\ (db' = db \/ db' = Append(db, a))

\* a record becomes pending only when it is constructed
OnlyFreshTasks == \A a \in tasks' \ tasks : a.id >= nextId /\ a.id < nextId'

\* C15: the response of POST /analyze is produced with the write still to be
\* attempted; the write is attempted once, afterwards, whether it succeeds
\* or fails, is never attempted again and sends nothing to the client.
C15_DeferredWrite ==
  []NoPendingStored /\ [][ResponseBeforeWrite /\ WriteOnce /\ OnlyFreshTasks]_vars

\* C15 witness: the write of the one record answered so far failed, and the
\* record is neither pending nor stored
C15_Witness == apiKey /\ req.op = "save" /\ nextId = 2 /\ tasks = {} /\ db = <<>>

(***************************************************************************)
(* Properties of request validation and of the stored collection           *)
(* (under Spec)                                                            *)
(***************************************************************************)
\* a text field of the request body that is left out or empty
Blank(x) == x = ABSENT \/ x = ""

\* C16: POST /analyze answers a body whose headline or content is missing or
\* empty with an error, calling no provider and leaving nothing to be stored
\* (a call of analyze_news that raised made no provider call); a body
\* without source is analysed with source "manual".  The code violates it:
\* the request model takes any string, the empty one included.
C16_BlankTextRejected ==
  /\ (req.op = "analyze" /\ (Blank(req.args.body.headline) \/ Blank(req.args.body.content)))
       => /\ resp.status # 200
          /\ \A i \in 1..Len(svc) : svc[i].raised
          /\ \A a \in tasks : a.headline # "" /\ a.content # ""
  /\ (req.op = "analyze" /\ resp.status = 200 /\ req.args.body.source = ABSENT)
       => resp.body.source = "manual"

\* no id is stored twice
StoredOnce == \A i, j \in 1..Len(db) : i # j => db[i].id # db[j].id

\* a stored record is never changed or removed
StoredGrowOnly == Len(db') >= Len(db) /\ SubSeq(db', 1, Len(db)) = db

\* what /analyze stores is what a successful response carried: a record
\* becomes pending with the 200 that answers it, and the deferred save
\* stores nothing but a pending record
AnalyzeStoresAnswered ==
  /\ req'.op = "analyze" => /\ db' = db
                            /\ tasks' \ tasks \subseteq {resp'.body}
                            /\ tasks' # tasks => resp'.status = 200
  /\ req'.op = "save" => \A k \in (Len(db) + 1)..Len(db') : db'[k] \in tasks

\* a request answered with an error stores nothing
ErrorsStoreNothing ==
  /\ (req'.op = "analyze" /\ resp'.status # 200) => (db' = db /\ tasks' = tasks)
  /\ (req'.op = "populate" /\ ~apiKey) => (resp'.status = 500 /\ db' = db)

\* /demo/populate stores the four sample records or none
PopulateAllOrNone ==
  req'.op = "populate" => (Len(db') = Len(db) \/ Len(db') = Len(db) + Len(SAMPLE_NEWS))

\* C17: under any interleaving the collection only grows, holds no id twice,
\* holds from /analyze only what a successful response carried, holds
\* nothing of a request answered with an error, and holds of a populate all
\* four sample records or none.  The code violates the last part: insert_many
\* is no transaction, and a failure part-way leaves the first documents in.
C17_CollectionConsistent ==
  []StoredOnce
    /\ [][StoredGrowOnly /\ AnalyzeStoresAnswered /\ ErrorsStoreNothing /\ PopulateAllOrNone]_vars

\* the parts of C17 that do not concern /demo/populate, which the code keeps
CollectionConsistentButPopulate ==
  []StoredOnce /\ [][StoredGrowOnly /\ AnalyzeStoresAnswered /\ ErrorsStoreNothing]_vars

====
